---- MODULE Spec2Model ----
(***************************************************************************)
(* Error classification and code mapping of meilisearch-http               *)
(* (meilisearch-http/src/error.rs).                                        *)
(*                                                                         *)
(* A leaf failure is reported by a collaborator, converted into a          *)
(* PayloadError and/or a MeilisearchHttpError by the From conversions, and *)
(* reduced to a Code by error_code.  A `todo!()` reached at run time is a   *)
(* panic: error_code then returns no Code at all, modelled by Panic.       *)
(***************************************************************************)
EXTENDS Integers, Sequences, FiniteSets

(* ----------------------------- bounds ---------------------------------- *)
MaxLine == 2
MaxColumn == 2
MaxDetail == 2
MaxAccepted == 2

(* --------------------------- leaf values ------------------------------- *)
Null == [tag |-> "Null"]

\* the outcome of a call that ran into todo!()
Panic == "panic"

\* error_code has not been called yet
NoCode == "none"

\* meilisearch_types::error::Code, restricted to the codes this layer and
\* the two delegating components use
Codes ==
    {"MissingContentType", "InvalidContentType", "Internal", "PayloadTooLarge",
     "UnsupportedMediaType", "BadRequest", "MissingPayload", "MalformedPayload",
     "IndexNotFound", "IndexAlreadyExists", "TaskNotFound"}

CallerFaultCodes ==
    {"BadRequest", "MissingPayload", "MalformedPayload", "PayloadTooLarge",
     "UnsupportedMediaType", "MissingContentType", "InvalidContentType"}

\* identity of an opaque carried value (an io::Error, an h2::Error, a limit...)
Details == 1..MaxDetail

MediaTypes == {"application/json", "text/csv"}
HeaderValues == {"text/plain", "application/json"}
AcceptedLists == UNION {[1..n -> MediaTypes] : n \in 0..MaxAccepted}

\* serde_json::error::Category
Categories == {"Io", "Syntax", "Data", "Eof"}

\* serde_json::error::Error as far as this layer inspects it:
\* classify(), line(), column()
SerdeJsonErrors == [category : Categories, line : 0..MaxLine, column : 0..MaxColumn]

\* aweb::error::PayloadError; detail 0 is "nothing carried" (Incomplete(None),
\* or a unit variant).  "Unlisted" is any variant the match does not name
\* (the enum is non_exhaustive, hence the `_` arm).
AwebPayloadErrors ==
    {[tag |-> "Incomplete", detail |-> d] : d \in 0..MaxDetail}
    \cup {[tag |-> t, detail |-> 0] :
            t \in {"EncodingCorrupted", "Overflow", "UnknownLength", "Unlisted"}}
    \cup {[tag |-> t, detail |-> d] : t \in {"Http2Payload", "Io"}, d \in Details}

\* aweb::error::JsonPayloadError
JsonPayloadErrors ==
    {[tag |-> "Overflow", limit |-> l] : l \in Details}
    \cup {[tag |-> "ContentType"], [tag |-> "Unlisted"]}
    \cup {[tag |-> "Payload", e |-> p] : p \in AwebPayloadErrors}
    \cup {[tag |-> t, e |-> s] : t \in {"Deserialize", "Serialize"}, s \in SerdeJsonErrors}

\* aweb::error::QueryPayloadError
QueryPayloadErrors ==
    {[tag |-> "Deserialize", detail |-> d] : d \in Details}
    \cup {[tag |-> "Unlisted", detail |-> d] : d \in Details}

\* index_scheduler::Error and DocumentFormatError are opaque here: each is a
\* carried value together with the Code its own error_code returns for it
SchedulerErrors == [detail : Details, code : Codes]
DocumentFormatErrors == [detail : Details, code : Codes]

\* file_store::Error and tokio::task::JoinError: opaque carried values
FileStoreErrors == {[tag |-> t, detail |-> d] : t \in {"IoError", "PersistError"}, d \in Details}
JoinErrors == {[tag |-> t, detail |-> d] : t \in {"Cancelled", "Panic"}, d \in Details}

\* outcome of the content-type negotiation: the header (absent or its
\* literal value) and the list of accepted media types
NoHeader == "<absent>"
ContentTypeOutcomes == [header : {NoHeader} \cup HeaderValues, accepted : AcceptedLists]

LeafErrors ==
    {[src |-> "content_type", e |-> c] : c \in ContentTypeOutcomes}
    \cup {[src |-> "scheduler", e |-> x] : x \in SchedulerErrors}
    \cup {[src |-> "file_store", e |-> x] : x \in FileStoreErrors}
    \cup {[src |-> "document_format", e |-> x] : x \in DocumentFormatErrors}
    \cup {[src |-> "join", e |-> x] : x \in JoinErrors}
    \cup {[src |-> "transport", e |-> x] : x \in AwebPayloadErrors}
    \cup {[src |-> "json", e |-> x] : x \in JsonPayloadErrors}
    \cup {[src |-> "query", e |-> x] : x \in QueryPayloadErrors}

(* ------------------ error codes owned by the components ---------------- *)
\* index_scheduler::Error::error_code
IndexSchedulerErrorCode(e) == e.code

\* DocumentFormatError::error_code
DocumentFormatErrorCode(e) == e.code

(* ------------------------- PayloadError -------------------------------- *)
\* constructors of enum PayloadError
PayloadError_Payload(e) == [tag |-> "Payload", e |-> e]
PayloadError_Json(e) == [tag |-> "Json", e |-> e]
PayloadError_Query(e) == [tag |-> "Query", e |-> e]
PayloadError_MalformedPayload(e) == [tag |-> "MalformedPayload", e |-> e]
PayloadError_MissingPayload == [tag |-> "MissingPayload"]

\* PayloadError::error_code, arm PayloadError::Payload(e): every arm is todo!()
TransportCode(e) ==
    CASE e.tag = "Incomplete" -> Panic
      [] e.tag = "EncodingCorrupted" -> Panic
      [] e.tag = "Overflow" -> Panic
      [] e.tag = "UnknownLength" -> Panic
      [] e.tag = "Http2Payload" -> Panic
      [] e.tag = "Io" -> Panic
      [] OTHER -> Panic

\* JsonCode with the Serialize arm answering like the Deserialize arm
JsonCode_SerializeAsDeserialize(err) ==
    IF err.tag = "Overflow" THEN "PayloadTooLarge"
    ELSE IF err.tag = "ContentType" THEN "UnsupportedMediaType"
    ELSE IF err.tag = "Payload" /\ err.e.tag = "Overflow" THEN "PayloadTooLarge"
    ELSE IF err.tag = "Payload" THEN "BadRequest"
    ELSE IF err.tag = "Deserialize" THEN "BadRequest"
    ELSE IF err.tag = "Serialize" THEN "BadRequest"
    ELSE "Internal"

\* JsonCode with the general Payload(_) arm placed before Payload(Overflow)
JsonCode_ArmOrder(err) ==
    IF err.tag = "Overflow" THEN "PayloadTooLarge"
    ELSE IF err.tag = "ContentType" THEN "UnsupportedMediaType"
    ELSE IF err.tag = "Payload" THEN "BadRequest"
    ELSE IF err.tag = "Payload" /\ err.e.tag = "Overflow" THEN "PayloadTooLarge"
    ELSE IF err.tag = "Deserialize" THEN "BadRequest"
    ELSE IF err.tag = "Serialize" THEN "Internal"
    ELSE "Internal"

\* PayloadError::error_code, arm PayloadError::Json(err); the arms are tried
\* in source order
JsonCode(err) ==
    IF err.tag = "Overflow" THEN "PayloadTooLarge"
    ELSE IF err.tag = "ContentType" THEN "UnsupportedMediaType"
    ELSE IF err.tag = "Payload" /\ err.e.tag = "Overflow" THEN "PayloadTooLarge"
    ELSE IF err.tag = "Payload" THEN "BadRequest"
    ELSE IF err.tag = "Deserialize" THEN "BadRequest"
    ELSE IF err.tag = "Serialize" THEN "Internal"
    ELSE "Internal"

\* QueryCode without the `_` arm's Internal
QueryCode_AlwaysBadRequest(err) == "BadRequest"

\* PayloadError::error_code, arm PayloadError::Query(err)
QueryCode(err) ==
    IF err.tag = "Deserialize" THEN "BadRequest" ELSE "Internal"

\* PayloadError::error_code with MalformedPayload reported as BadRequest
PayloadError_error_code_MalformedAsBadRequest(self) ==
    CASE self.tag = "Payload" -> TransportCode(self.e)
      [] self.tag = "Json" -> JsonCode(self.e)
      [] self.tag = "Query" -> QueryCode(self.e)
      [] self.tag = "MissingPayload" -> "MissingPayload"
      [] self.tag = "MalformedPayload" -> "BadRequest"

\* impl ErrorCode for PayloadError
PayloadError_error_code(self) ==
    CASE self.tag = "Payload" -> TransportCode(self.e)
      [] self.tag = "Json" -> JsonCode(self.e)
      [] self.tag = "Query" -> QueryCode(self.e)
      [] self.tag = "MissingPayload" -> "MissingPayload"
      [] self.tag = "MalformedPayload" -> "MalformedPayload"

\* From<JsonPayloadError> without the position test of the first arm
FromJsonPayloadError_NoPosition(other) ==
    IF other.tag = "Deserialize" /\ other.e.category = "Eof"
    THEN PayloadError_MissingPayload
    ELSE IF other.tag = "Deserialize" /\ other.e.category # "Data"
    THEN PayloadError_MalformedPayload(other.e)
    ELSE PayloadError_Json(other)

\* From<JsonPayloadError> with the second guard written `== Syntax`
FromJsonPayloadError_SyntaxOnly(other) ==
    IF /\ other.tag = "Deserialize"
       /\ other.e.category = "Eof"
       /\ other.e.line = 1
       /\ other.e.column = 0
    THEN PayloadError_MissingPayload
    ELSE IF other.tag = "Deserialize" /\ other.e.category = "Syntax"
    THEN PayloadError_MalformedPayload(other.e)
    ELSE PayloadError_Json(other)

\* impl From<JsonPayloadError> for PayloadError
FromJsonPayloadError(other) ==
    IF /\ other.tag = "Deserialize"
       /\ other.e.category = "Eof"
       /\ other.e.line = 1
       /\ other.e.column = 0
    THEN PayloadError_MissingPayload
    ELSE IF other.tag = "Deserialize" /\ other.e.category # "Data"
    THEN PayloadError_MalformedPayload(other.e)
    ELSE PayloadError_Json(other)

\* impl From<QueryPayloadError> for PayloadError
FromQueryPayloadError(other) == PayloadError_Query(other)

(* --------------------- MeilisearchHttpError ---------------------------- *)
\* constructors of enum MeilisearchHttpError
MissingContentType(accepted) == [tag |-> "MissingContentType", accepted |-> accepted]
InvalidContentType(header, accepted) ==
    [tag |-> "InvalidContentType", header |-> header, accepted |-> accepted]
IndexScheduler(e) == [tag |-> "IndexScheduler", e |-> e]
Payload(e) == [tag |-> "Payload", e |-> e]
FileStore(e) == [tag |-> "FileStore", e |-> e]
DocumentFormat(e) == [tag |-> "DocumentFormat", e |-> e]
Join(e) == [tag |-> "Join", e |-> e]

\* impl From<aweb::error::PayloadError> for MeilisearchHttpError
FromAwebPayloadError(error) == Payload(PayloadError_Payload(error))

\* error_code answering Internal for the two delegating variants
error_code_NoDelegation(self) ==
    CASE self.tag = "MissingContentType" -> "MissingContentType"
      [] self.tag = "InvalidContentType" -> "InvalidContentType"
      [] self.tag = "IndexScheduler" -> "Internal"
      [] self.tag = "Payload" -> PayloadError_error_code(self.e)
      [] self.tag = "FileStore" -> "Internal"
      [] self.tag = "DocumentFormat" -> "Internal"
      [] self.tag = "Join" -> "Internal"

\* error_code with the MissingContentType arm answering InvalidContentType
error_code_MissingAsInvalid(self) ==
    CASE self.tag = "MissingContentType" -> "InvalidContentType"
      [] self.tag = "InvalidContentType" -> "InvalidContentType"
      [] self.tag = "IndexScheduler" -> IndexSchedulerErrorCode(self.e)
      [] self.tag = "Payload" -> PayloadError_error_code(self.e)
      [] self.tag = "FileStore" -> "Internal"
      [] self.tag = "DocumentFormat" -> DocumentFormatErrorCode(self.e)
      [] self.tag = "Join" -> "Internal"

\* impl ErrorCode for MeilisearchHttpError
error_code(self) ==
    CASE self.tag = "MissingContentType" -> "MissingContentType"
      [] self.tag = "InvalidContentType" -> "InvalidContentType"
      [] self.tag = "IndexScheduler" -> IndexSchedulerErrorCode(self.e)
      [] self.tag = "Payload" -> PayloadError_error_code(self.e)
      [] self.tag = "FileStore" -> "Internal"
      [] self.tag = "DocumentFormat" -> DocumentFormatErrorCode(self.e)
      [] self.tag = "Join" -> "Internal"

(* ----------------------------- state ----------------------------------- *)
VARIABLES
    pc,        \* "leaf", "payload", "top", "done" or "panicked"
    leaf,      \* the failure reported by the collaborator
    payload,   \* the PayloadError built from it, or Null
    err,       \* the MeilisearchHttpError built from it, or Null
    code,      \* the Code returned by error_code, NoCode before, Panic on todo!()
    op         \* the operation that built `payload` or `err` last

vars == <<pc, leaf, payload, err, code, op>>

Init ==
    /\ pc = "leaf"
    /\ leaf \in LeafErrors
    /\ payload = Null
    /\ err = Null
    /\ code = NoCode
    /\ op = "none"

\* the content-type check found no header: MissingContentType(accepted)
NewMissingContentType ==
    /\ pc = "leaf" /\ leaf.src = "content_type" /\ leaf.e.header = NoHeader
    /\ err' = MissingContentType(leaf.e.accepted)
    /\ pc' = "top" /\ op' = "MissingContentType"
    /\ UNCHANGED <<leaf, payload, code>>

\* the content-type check found a header that is not accepted
NewInvalidContentType ==
    /\ pc = "leaf" /\ leaf.src = "content_type" /\ leaf.e.header # NoHeader
    /\ err' = InvalidContentType(leaf.e.header, leaf.e.accepted)
    /\ pc' = "top" /\ op' = "InvalidContentType"
    /\ UNCHANGED <<leaf, payload, code>>

\* #[from] index_scheduler::Error
FromIndexSchedulerError ==
    /\ pc = "leaf" /\ leaf.src = "scheduler"
    /\ err' = IndexScheduler(leaf.e)
    /\ pc' = "top" /\ op' = "From<index_scheduler::Error>"
    /\ UNCHANGED <<leaf, payload, code>>

\* #[from] file_store::Error
FromFileStoreError ==
    /\ pc = "leaf" /\ leaf.src = "file_store"
    /\ err' = FileStore(leaf.e)
    /\ pc' = "top" /\ op' = "From<file_store::Error>"
    /\ UNCHANGED <<leaf, payload, code>>

\* #[from] DocumentFormatError
FromDocumentFormatError ==
    /\ pc = "leaf" /\ leaf.src = "document_format"
    /\ err' = DocumentFormat(leaf.e)
    /\ pc' = "top" /\ op' = "From<DocumentFormatError>"
    /\ UNCHANGED <<leaf, payload, code>>

\* #[from] JoinError
FromJoinError ==
    /\ pc = "leaf" /\ leaf.src = "join"
    /\ err' = Join(leaf.e)
    /\ pc' = "top" /\ op' = "From<JoinError>"
    /\ UNCHANGED <<leaf, payload, code>>

\* MeilisearchHttpError::from(aweb::error::PayloadError)
ConvertAwebPayloadError ==
    /\ pc = "leaf" /\ leaf.src = "transport"
    /\ err' = FromAwebPayloadError(leaf.e)
    /\ payload' = PayloadError_Payload(leaf.e)
    /\ pc' = "top" /\ op' = "From<aweb::PayloadError>"
    /\ UNCHANGED <<leaf, code>>

\* PayloadError::from(JsonPayloadError)
ConvertJsonPayloadError ==
    /\ pc = "leaf" /\ leaf.src = "json"
    /\ payload' = FromJsonPayloadError(leaf.e)
    /\ pc' = "payload" /\ op' = "From<JsonPayloadError>"
    /\ UNCHANGED <<leaf, err, code>>

\* PayloadError::Json(e) built directly, without the conversion
NewPayloadErrorJson ==
    /\ pc = "leaf" /\ leaf.src = "json"
    /\ payload' = PayloadError_Json(leaf.e)
    /\ pc' = "payload" /\ op' = "PayloadError::Json"
    /\ UNCHANGED <<leaf, err, code>>

\* PayloadError::from(QueryPayloadError)
ConvertQueryPayloadError ==
    /\ pc = "leaf" /\ leaf.src = "query"
    /\ payload' = FromQueryPayloadError(leaf.e)
    /\ pc' = "payload" /\ op' = "From<QueryPayloadError>"
    /\ UNCHANGED <<leaf, err, code>>

\* #[from] PayloadError
FromPayloadError ==
    /\ pc = "payload"
    /\ err' = Payload(payload)
    /\ pc' = "top"
    /\ UNCHANGED <<leaf, payload, code, op>>

\* MeilisearchHttpError::error_code, called once on the wrapped error
CallErrorCode ==
    /\ pc = "top"
    /\ code' = error_code(err)
    /\ pc' = IF error_code(err) = Panic THEN "panicked" ELSE "done"
    /\ UNCHANGED <<leaf, payload, err, op>>

\* PayloadError::error_code, called on a PayloadError that is turned into a
\* response without being wrapped
CallPayloadErrorCode ==
    /\ pc = "payload"
    /\ code' = PayloadError_error_code(payload)
    /\ pc' = IF PayloadError_error_code(payload) = Panic THEN "panicked" ELSE "done"
    /\ UNCHANGED <<leaf, payload, err, op>>

Next ==
    \/ NewMissingContentType
    \/ NewInvalidContentType
    \/ FromIndexSchedulerError
    \/ FromFileStoreError
    \/ FromDocumentFormatError
    \/ FromJoinError
    \/ ConvertAwebPayloadError
    \/ ConvertJsonPayloadError
    \/ NewPayloadErrorJson
    \/ ConvertQueryPayloadError
    \/ FromPayloadError
    \/ CallErrorCode
    \/ CallPayloadErrorCode

Spec == Init /\ [][Next]_vars

(* ----------------------------- claims ---------------------------------- *)
\* error_code has been called, on the wrapper or on the PayloadError
Returned == pc \in {"done", "panicked"}

\* the PayloadError in hand was produced by From<JsonPayloadError> from a
\* Deserialize failure
ConvertedDeserialize == op = "From<JsonPayloadError>" /\ leaf.e.tag = "Deserialize"

\* C1: for every constructible error, error_code returns exactly one Code
\* and never faults or reaches an unimplemented path.
C1_Totality == Returned => code \in Codes

\* C2: From<JsonPayloadError> on a Deserialize failure gives MissingPayload
\* for Eof at line 1, column 0, MalformedPayload for Eof anywhere else and
\* for every other category that is not Data, and Json for Data; exactly
\* one of the three.
C2_Disambiguation ==
    ConvertedDeserialize =>
        LET e == leaf.e.e
            atStart == e.line = 1 /\ e.column = 0
        IN  /\ (e.category = "Eof" /\ atStart) => payload.tag = "MissingPayload"
            /\ (e.category = "Eof" /\ ~atStart) => payload.tag = "MalformedPayload"
            /\ (e.category \notin {"Eof", "Data"}) => payload.tag = "MalformedPayload"
            /\ (e.category = "Data") => payload.tag = "Json"
            /\ payload.tag \in {"MissingPayload", "MalformedPayload", "Json"}

\* an Eof failure at line 1, column 0 has been converted to MissingPayload
C2_Witness ==
    /\ ConvertedDeserialize
    /\ leaf.e.e = [category |-> "Eof", line |-> 1, column |-> 0]
    /\ payload.tag = "MissingPayload"

\* the leaf failure signals a size overflow: a JSON Overflow, a transport
\* Overflow nested in a JSON payload error, or a transport Overflow
SignalsOverflow ==
    \/ leaf.src = "transport" /\ leaf.e.tag = "Overflow"
    \/ leaf.src = "json" /\ leaf.e.tag = "Overflow"
    \/ leaf.src = "json" /\ leaf.e.tag = "Payload" /\ leaf.e.e.tag = "Overflow"

\* C3: every payload error that signals a size overflow maps to
\* PayloadTooLarge, whichever path carries it.
C3_OverflowIsPayloadTooLarge == (Returned /\ SignalsOverflow) => code = "PayloadTooLarge"

\* C4: the code of a wrapped scheduler or document-format error is the code
\* the component's own error_code gives for it, whatever that code is.
C4_DelegationTransparency ==
    (pc = "done" /\ leaf.src \in {"scheduler", "document_format"}) =>
        /\ err.tag = (IF leaf.src = "scheduler" THEN "IndexScheduler" ELSE "DocumentFormat")
        /\ err.e = leaf.e
        /\ code = leaf.e.code

\* a document-format error whose own code is MalformedPayload has been mapped
C4_Witness ==
    /\ pc = "done" /\ leaf.src = "document_format"
    /\ leaf.e.code = "MalformedPayload" /\ code = "MalformedPayload"

\* C5: an absent Content-Type header gives MissingContentType, never
\* InvalidContentType, for any accepted list (the empty one too); a present,
\* unaccepted header gives InvalidContentType; the carried data plays no part.
C5_ContentTypePrecedence ==
    (pc = "done" /\ leaf.src = "content_type") =>
        IF leaf.e.header = NoHeader
        THEN err.tag = "MissingContentType" /\ code = "MissingContentType"
        ELSE err.tag = "InvalidContentType" /\ code = "InvalidContentType"

\* the header was absent, the accepted list empty, and the code was computed
C5_Witness ==
    /\ pc = "done" /\ leaf.src = "content_type"
    /\ leaf.e.header = NoHeader /\ leaf.e.accepted = <<>>
    /\ code = "MissingContentType"

\* C6: convert a JSON deserialization failure, wrap it, call error_code:
\* Eof at (1, 0) gives MissingPayload, Syntax anywhere gives
\* MalformedPayload, Data gives BadRequest.
C6_RequestBodyScenarios ==
    (Returned /\ ConvertedDeserialize) =>
        LET e == leaf.e.e
        IN  /\ (e.category = "Eof" /\ e.line = 1 /\ e.column = 0) => code = "MissingPayload"
            /\ (e.category = "Syntax") => code = "MalformedPayload"
            /\ (e.category = "Data") => code = "BadRequest"

\* a Syntax failure past column 0 of line 1 was converted, wrapped and mapped
C6_Witness ==
    /\ pc = "done" /\ ConvertedDeserialize /\ err.tag = "Payload"
    /\ leaf.e.e.category = "Syntax" /\ leaf.e.e.line = 1 /\ leaf.e.e.column > 0
    /\ code = "MalformedPayload"

\* the error in hand is a server fault: a blob-store error, a task-join
\* error or a JSON serialization-side fault
ServerFault ==
    \/ err.tag \in {"FileStore", "Join"}
    \/ payload.tag = "Json" /\ payload.e.tag = "Serialize"

\* C7: blob-store errors, task-join errors and JSON serialization-side
\* faults map to Internal whatever they carry, never to a caller-fault code.
C7_ServerFaultIsInternal ==
    (Returned /\ ServerFault) => (code = "Internal" /\ code \notin CallerFaultCodes)

\* a serialization-side fault went through the conversion and was mapped
C7_Witness ==
    /\ pc = "done" /\ op = "From<JsonPayloadError>"
    /\ payload.tag = "Json" /\ payload.e.tag = "Serialize"
    /\ code = "Internal"

\* C8: for PayloadError::Json(err): ContentType gives UnsupportedMediaType,
\* Deserialize gives BadRequest, a nested transport fault other than
\* Overflow gives BadRequest, and a nested Overflow is never BadRequest.
C8_JsonCodeTable ==
    (Returned /\ payload.tag = "Json") =>
        LET j == payload.e
        IN  /\ (j.tag = "ContentType") => code = "UnsupportedMediaType"
            /\ (j.tag = "Deserialize") => code = "BadRequest"
            /\ (j.tag = "Payload" /\ j.e.tag # "Overflow") => code = "BadRequest"
            /\ (j.tag = "Payload" /\ j.e.tag = "Overflow") =>
                    (code = "PayloadTooLarge" /\ code # "BadRequest")

\* a nested transport Overflow was mapped
C8_Witness ==
    /\ pc = "done" /\ payload.tag = "Json"
    /\ payload.e.tag = "Payload" /\ payload.e.e.tag = "Overflow"
    /\ code = "PayloadTooLarge"

\* C9: From<QueryPayloadError> always gives Query holding the error
\* unchanged; its code is BadRequest for a deserialization fault and
\* Internal for every other query error.
C9_QueryErrors ==
    (op = "From<QueryPayloadError>") =>
        /\ payload = [tag |-> "Query", e |-> leaf.e]
        /\ Returned =>
            code = (IF leaf.e.tag = "Deserialize" THEN "BadRequest" ELSE "Internal")

\* a query error that is no deserialization fault was converted and mapped
C9_Witness ==
    /\ pc = "done" /\ op = "From<QueryPayloadError>"
    /\ leaf.e.tag # "Deserialize" /\ code = "Internal"

\* C10: From<JsonPayloadError> (i) gives MissingPayload or MalformedPayload
\* only for Deserialize inputs and returns every other input as Json,
\* unchanged; (ii) keeps line, column and category in MalformedPayload;
\* (iii) never gives Json(Deserialize(e)) with e not of category Data, so
\* BadRequest is reached for a converted Deserialize failure only for Data.
C10_DerivedAndLossless ==
    (op = "From<JsonPayloadError>") =>
        /\ (payload.tag \in {"MissingPayload", "MalformedPayload"}) =>
                leaf.e.tag = "Deserialize"
        /\ (leaf.e.tag # "Deserialize") => payload = [tag |-> "Json", e |-> leaf.e]
        /\ (payload.tag = "MalformedPayload") =>
                /\ payload.e.line = leaf.e.e.line
                /\ payload.e.column = leaf.e.e.column
                /\ payload.e.category = leaf.e.e.category
        /\ (payload.tag = "Json") => payload.e = leaf.e
        /\ ~(/\ payload.tag = "Json"
             /\ payload.e.tag = "Deserialize"
             /\ payload.e.e.category # "Data")
        /\ (Returned /\ leaf.e.tag = "Deserialize" /\ code = "BadRequest") =>
                leaf.e.e.category = "Data"

\* an Io-category failure was converted to MalformedPayload with its
\* diagnostic, and mapped
C10_Witness ==
    /\ pc = "done" /\ ConvertedDeserialize
    /\ leaf.e.e.category = "Io"
    /\ payload = [tag |-> "MalformedPayload", e |-> leaf.e.e]
    /\ code = "MalformedPayload"
====
